---- MODULE Spec2Model ----
(***************************************************************************)
(* Model of download_model.py, the CosyVoice model downloader: the static  *)
(* MODELS catalog, the two transports (download_via_sdk, download_via_git),*)
(* the post-install step install_ttsfrd, list_models and the orchestration *)
(* in main().  External collaborators (the ModelScope SDK, git, git-lfs,   *)
(* the operator at the prompt, unzip, pip, the filesystem) answer          *)
(* nondeterministically; the file system is the set of paths that exist.   *)
(***************************************************************************)
EXTENDS Integers, Sequences, FiniteSets, TLC

VARIABLES
    args,               \* the parsed command line (argparse namespace)
    pc,                 \* position of main()
    models_to_download, \* main(): the sequence being processed
    idx,                \* number of loop iterations completed
    model_key,          \* loop variable of main()
    success_count,      \* main(): success_count
    outcomes,           \* return values of download_func, in call order
    fetched,            \* keys download_func was called with, in call order
    attempts,           \* per key: transport operations (snapshot_download / git clone) invoked
    ret,                \* what the last download_func call met and returned
    fs,                 \* the paths that exist
    zipContents,        \* wheel files packed in resource.zip
    installs,           \* results of the install_ttsfrd calls, in call order
    caps,               \* answers of unzip / pip when they are held fixed
    listing,            \* what list_models printed: key -> local copy exists
    summary             \* the printed summary line

vars == <<args, pc, models_to_download, idx, model_key, success_count, outcomes,
          fetched, attempts, ret, fs, zipContents, installs, caps, listing, summary>>

----------------------------------------------------------------------------
(* Bounds *)

\* most paths below pretrained_models/ that exist before the run
MaxPreExisting == 2

\* most successive install_ttsfrd calls in SpecReinstall
MaxInstallCalls == 2

----------------------------------------------------------------------------
(* The catalog *)

MODELS ==
    [ cosyvoice2 |->
        [name |-> "CosyVoice2-0.5B", repo |-> "iic/CosyVoice2-0.5B",
         local_dir |-> "pretrained_models/CosyVoice2-0.5B",
         git_url |-> "https://www.modelscope.cn/iic/CosyVoice2-0.5B.git"],
      cosyvoice_300m |->
        [name |-> "CosyVoice-300M", repo |-> "iic/CosyVoice-300M",
         local_dir |-> "pretrained_models/CosyVoice-300M",
         git_url |-> "https://www.modelscope.cn/iic/CosyVoice-300M.git"],
      sft |->
        [name |-> "CosyVoice-300M-SFT", repo |-> "iic/CosyVoice-300M-SFT",
         local_dir |-> "pretrained_models/CosyVoice-300M-SFT",
         git_url |-> "https://www.modelscope.cn/iic/CosyVoice-300M-SFT.git"],
      instruct |->
        [name |-> "CosyVoice-300M-Instruct", repo |-> "iic/CosyVoice-300M-Instruct",
         local_dir |-> "pretrained_models/CosyVoice-300M-Instruct",
         git_url |-> "https://www.modelscope.cn/iic/CosyVoice-300M-Instruct.git"],
      ttsfrd |->
        [name |-> "CosyVoice-ttsfrd", repo |-> "iic/CosyVoice-ttsfrd",
         local_dir |-> "pretrained_models/CosyVoice-ttsfrd",
         git_url |-> "https://www.modelscope.cn/iic/CosyVoice-ttsfrd.git"] ]

\* list(MODELS.keys()): a dict keeps insertion order ("cosyvoice_300m" is the
\* key 'cosyvoice-300m')
MODELS_keys == <<"cosyvoice2", "cosyvoice_300m", "sft", "instruct", "ttsfrd">>

Keys == {MODELS_keys[i] : i \in 1..Len(MODELS_keys)}

\* the paths the program names
Root == "pretrained_models"
ttsfrd_dir == "pretrained_models/CosyVoice-ttsfrd"
resource_zip == "pretrained_models/CosyVoice-ttsfrd/resource.zip"
dependency_whl == "pretrained_models/CosyVoice-ttsfrd/ttsfrd_dependency-0.1-py3-none-any.whl"
ttsfrd_whl == "pretrained_models/CosyVoice-ttsfrd/ttsfrd-0.4.2-cp310-cp310-linux_x86_64.whl"

Wheels == {dependency_whl, ttsfrd_whl}
TtsfrdFiles == {resource_zip} \cup Wheels
ModelDirs == {MODELS[k].local_dir : k \in Keys}
AllPaths == {Root} \cup ModelDirs \cup TtsfrdFiles

\* a file lies in its directory, a directory below the destination root
ConsistentFs(s) ==
    /\ (s # {} => Root \in s)
    /\ (s \cap TtsfrdFiles # {} => ttsfrd_dir \in s)

----------------------------------------------------------------------------
(* Values *)

NoModel == "None"           \* args.model when --model is not given
Bogus == "no-such-model"    \* a --model value that is not a catalog key
NA == "na"                  \* a collaborator that was not consulted
EOF == "EOFError"           \* input() met a closed standard input

Payload == [zip : BOOLEAN, contents : SUBSET Wheels]
NoPayload == [zip |-> FALSE, contents |-> {}]
NoEnv == [sdk |-> NA, lfs |-> NA, answer |-> NA, mkdir |-> NA, xfer |-> NA,
          payload |-> NoPayload]
NoRet == [ok |-> FALSE, cause |-> NA, env |-> NoEnv]
NoCaps == [unzip |-> NA, partial |-> {}, dep |-> NA, main |-> NA]
NoListing == [k \in Keys |-> NA]
NoSummary == [total |-> -1, succeededCount |-> -1]

\* The command lines tried.  --all overrides --model (line 251), so next to
\* --all one catalog key stands for the five.
ArgSpace ==
    {a \in [model : Keys \cup {NoModel, Bogus}, all : BOOLEAN, method : {"sdk", "git"},
            install_ttsfrd : BOOLEAN, list : BOOLEAN] :
        a.all => a.model \in {NoModel, Bogus, "ttsfrd"}}

----------------------------------------------------------------------------
(* What the collaborators can answer *)

\* what a repository delivers: only CosyVoice-ttsfrd may carry resource.zip
Payloads(key) ==
    IF key = "ttsfrd"
    THEN {p \in Payload : ~p.zip => p.contents = {}}
    ELSE {NoPayload}

\* os.makedirs(..., exist_ok=True) returns at once on an existing directory;
\* otherwise it creates it or raises OSError (PermissionError, FileExistsError)
MkdirAnswers(f) == IF Root \in f THEN {"ok"} ELSE {"ok", "oserror"}

\* the SDK import, makedirs and snapshot_download, each consulted only when reached
SdkEnvs(key, f) ==
    {[NoEnv EXCEPT !.sdk = "missing"]}
    \cup {[NoEnv EXCEPT !.sdk = "ok", !.mkdir = "oserror"] : m \in MkdirAnswers(f) \ {"ok"}}
    \cup {[NoEnv EXCEPT !.sdk = "ok", !.mkdir = "ok", !.xfer = "error"]}
    \cup {[NoEnv EXCEPT !.sdk = "ok", !.mkdir = "ok", !.xfer = "ok", !.payload = p] :
            p \in Payloads(key)}

----------------------------------------------------------------------------
(* The transports *)

\* subprocess.run(['git','lfs','version']): return code 0, another return
\* code, or FileNotFoundError when git is absent
check_git_lfs(probe) ==
    IF probe = "missing" THEN FALSE ELSE probe = "ok"

\* str.lower() on the answers tried
lower(s) == IF s = "Y" THEN "y" ELSE s

\* variant of continue_anyway: an empty answer takes the default to be yes
continue_anyway_unless_no(response) == lower(response) # "n"

\* line 122 negated: the operator lets the clone go on
continue_anyway(response) == lower(response) = "y"

\* the operator's answers to "Continue anyway? (y/N): "
Answers == {"y", "Y", "n", ""}

\* makedirs and git clone, once download_via_git goes on to them
CloneEnvs(key, f, e) ==
    {[e EXCEPT !.mkdir = "oserror"] : m \in MkdirAnswers(f) \ {"ok"}}
    \cup {[e EXCEPT !.mkdir = "ok", !.xfer = x] : x \in {"nonzero", "missing"}}
    \cup {[e EXCEPT !.mkdir = "ok", !.xfer = "ok", !.payload = p] : p \in Payloads(key)}

\* git lfs version, the prompt, makedirs and git clone, each consulted only when reached
GitEnvs(key, f) ==
    CloneEnvs(key, f, [NoEnv EXCEPT !.lfs = "ok"])
    \cup UNION {
          IF continue_anyway(a)
          THEN CloneEnvs(key, f, [NoEnv EXCEPT !.lfs = l, !.answer = a])
          ELSE {[NoEnv EXCEPT !.lfs = l, !.answer = a]}
        : l \in {"nonzero", "missing"}, a \in Answers \cup {EOF}}

\* what snapshot_download / git clone leave behind on success
populated(key, f, payload) ==
    f \cup {MODELS[key].local_dir}
      \cup (IF payload.zip THEN {resource_zip} ELSE {})

\* download_via_sdk: the result, the paths afterwards, whether snapshot_download
\* was invoked, whether an exception left the function
download_via_sdk(key, f, env) ==
    IF env.sdk = "missing"
    THEN [ok |-> FALSE, cause |-> "CapabilityMissing", fs |-> f,
          attempted |-> FALSE, raised |-> FALSE]
    ELSE IF env.mkdir = "oserror"
    THEN [ok |-> FALSE, cause |-> "TransferFailure", fs |-> f,
          attempted |-> FALSE, raised |-> FALSE]
    ELSE IF env.xfer # "ok"
    THEN [ok |-> FALSE, cause |-> "TransferFailure", fs |-> f \cup {Root},
          attempted |-> TRUE, raised |-> FALSE]
    ELSE [ok |-> TRUE, cause |-> "Success",
          fs |-> populated(key, f \cup {Root}, env.payload),
          attempted |-> TRUE, raised |-> FALSE]

\* download_via_git, likewise for git clone
download_via_git(key, f, env) ==
    IF ~check_git_lfs(env.lfs) /\ env.answer = EOF
    THEN [ok |-> FALSE, cause |-> "EOFError", fs |-> f,
          attempted |-> FALSE, raised |-> TRUE]
    ELSE IF ~check_git_lfs(env.lfs) /\ ~continue_anyway(env.answer)
    THEN [ok |-> FALSE, cause |-> "Cancelled", fs |-> f,
          attempted |-> FALSE, raised |-> FALSE]
    ELSE IF env.mkdir = "oserror"
    THEN [ok |-> FALSE, cause |-> "OSError", fs |-> f,
          attempted |-> FALSE, raised |-> TRUE]
    ELSE IF env.xfer = "nonzero"
    THEN [ok |-> FALSE, cause |-> "TransferFailure", fs |-> f \cup {Root},
          attempted |-> TRUE, raised |-> FALSE]
    ELSE IF env.xfer = "missing"
    THEN [ok |-> FALSE, cause |-> "CapabilityMissing", fs |-> f \cup {Root},
          attempted |-> TRUE, raised |-> FALSE]
    ELSE [ok |-> TRUE, cause |-> "Success",
          fs |-> populated(key, f \cup {Root}, env.payload),
          attempted |-> TRUE, raised |-> FALSE]

----------------------------------------------------------------------------
(* The post-install step *)

\* the answers of unzip and of the two pip runs; pip is reached only after a
\* clean unzip, and only an unzip that ends non-zero leaves a partial extraction
Caps ==
    {[NoCaps EXCEPT !.unzip = "missing"]}
    \cup {[NoCaps EXCEPT !.unzip = "nonzero", !.partial = p] : p \in SUBSET Wheels}
    \cup {[NoCaps EXCEPT !.unzip = "ok", !.dep = d, !.main = m] :
            d \in {"ok", "nonzero"}, m \in {"ok", "nonzero"}}

Step(op, rc) == [op |-> op, rc |-> rc]

exists(path, f) == IF path \in f THEN "present" ELSE "absent"

\* variant of preconditions: the archive is not looked for
preconditions_skip_zip(f) ==
    IF ttsfrd_dir \notin f
    THEN [detail |-> "NotDownloaded",
          steps |-> <<Step("exists_dir", "absent")>>]
    ELSE [detail |-> "ok",
          steps |-> <<Step("exists_dir", "present")>>]

\* lines 146-160: the two preconditions, with the probes made
preconditions(f) ==
    IF ttsfrd_dir \notin f
    THEN [detail |-> "NotDownloaded",
          steps |-> <<Step("exists_dir", "absent")>>]
    ELSE IF resource_zip \notin f
    THEN [detail |-> "ArchiveMissing",
          steps |-> <<Step("exists_dir", "present"), Step("exists_zip", "absent")>>]
    ELSE [detail |-> "ok",
          steps |-> <<Step("exists_dir", "present"), Step("exists_zip", "present")>>]

\* lines 163-166: unzip -o resource.zip -d ttsfrd_dir.  A run that ends with a
\* non-zero code may have written some of the members already.
extract(f, zc, cap) ==
    IF cap.unzip = "ok" THEN f \cup zc
    ELSE IF cap.unzip = "nonzero" THEN f \cup (cap.partial \cap zc)
    ELSE f

\* variant of install_wheels: a failed dependency install does not stop the
\* main install
install_wheels_no_abort(f, cap) ==
    LET depStep == <<Step("exists_dep", exists(dependency_whl, f))>>
                   \o (IF dependency_whl \in f THEN <<Step("pip_dep", cap.dep)>> ELSE <<>>)
        mainStep == <<Step("exists_main", exists(ttsfrd_whl, f))>>
                    \o (IF ttsfrd_whl \in f THEN <<Step("pip_main", cap.main)>> ELSE <<>>)
    IN  [ok |-> /\ (dependency_whl \in f => cap.dep = "ok")
                /\ (ttsfrd_whl \in f => cap.main = "ok"),
         detail |-> IF /\ (dependency_whl \in f => cap.dep = "ok")
                       /\ (ttsfrd_whl \in f => cap.main = "ok")
                    THEN "Success" ELSE "InstallFailure",
         steps |-> depStep \o mainStep]

\* lines 168-184: the two optional wheels, in the order the code installs them
install_wheels(f, cap) ==
    LET depStep == <<Step("exists_dep", exists(dependency_whl, f))>>
                   \o (IF dependency_whl \in f THEN <<Step("pip_dep", cap.dep)>> ELSE <<>>)
        mainStep == <<Step("exists_main", exists(ttsfrd_whl, f))>>
                    \o (IF ttsfrd_whl \in f THEN <<Step("pip_main", cap.main)>> ELSE <<>>)
    IN  IF dependency_whl \in f /\ cap.dep # "ok"
        THEN [ok |-> FALSE, detail |-> "InstallFailure", steps |-> depStep]
        ELSE IF ttsfrd_whl \in f /\ cap.main # "ok"
        THEN [ok |-> FALSE, detail |-> "InstallFailure", steps |-> depStep \o mainStep]
        ELSE [ok |-> TRUE, detail |-> "Success", steps |-> depStep \o mainStep]

\* variant of install_ttsfrd: the wheels are looked for before the archive is
\* extracted
install_ttsfrd_probe_first(f, zc, cap) ==
    LET pre == preconditions(f) IN
    IF pre.detail # "ok"
    THEN [ok |-> FALSE, detail |-> pre.detail, steps |-> pre.steps, fs |-> f]
    ELSE IF cap.unzip # "ok"
    THEN [ok |-> FALSE,
          detail |-> IF cap.unzip = "missing" THEN "CapabilityMissing" ELSE "InstallFailure",
          steps |-> pre.steps \o <<Step("unzip", cap.unzip)>>,
          fs |-> extract(f, zc, cap)]
    ELSE LET f1 == extract(f, zc, cap)
             w == install_wheels(f, cap)
         IN  [ok |-> w.ok, detail |-> w.detail,
              steps |-> pre.steps \o <<Step("unzip", "ok")>> \o w.steps,
              fs |-> f1]

\* install_ttsfrd: the result, what it did, and the paths afterwards
install_ttsfrd(f, zc, cap) ==
    LET pre == preconditions(f) IN
    IF pre.detail # "ok"
    THEN [ok |-> FALSE, detail |-> pre.detail, steps |-> pre.steps, fs |-> f]
    ELSE IF cap.unzip # "ok"
    THEN [ok |-> FALSE,
          detail |-> IF cap.unzip = "missing" THEN "CapabilityMissing" ELSE "InstallFailure",
          steps |-> pre.steps \o <<Step("unzip", cap.unzip)>>,
          fs |-> extract(f, zc, cap)]
    ELSE LET f1 == extract(f, zc, cap)
             w == install_wheels(f1, cap)
         IN  [ok |-> w.ok, detail |-> w.detail,
              steps |-> pre.steps \o <<Step("unzip", "ok")>> \o w.steps,
              fs |-> f1]

\* list_models: one mark per catalog entry
list_models(f) ==
    [k \in Keys |-> exists(MODELS[k].local_dir, f)]

----------------------------------------------------------------------------
(* main() *)

Range(q) == {q[i] : i \in 1..Len(q)}

\* lines 212-216, 243: argparse accepts --model only from choices=list(MODELS.keys())
valid_choice(a) == a.model \in Keys \cup {NoModel}

\* variant of list_requested: --list is honoured only when nothing is selected
list_requested_bare(a) == a.list /\ ~a.all /\ a.model = NoModel

\* line 246
list_requested(a) == a.list

\* lines 251-255
select_models(a) ==
    IF a.all THEN MODELS_keys
    ELSE IF a.model # NoModel THEN <<a.model>>
    ELSE <<>>

\* line 262
download_func(method, key, f, env) ==
    IF method = "git" THEN download_via_git(key, f, env) ELSE download_via_sdk(key, f, env)

\* variant of count: every returned value is counted
count_always(n, ok) == n + 1

\* lines 267-268
count(n, ok) == IF ok THEN n + 1 ELSE n

\* variant of advance: a failed fetch ends the loop
advance_stop_on_failure(i, ok) == IF ok THEN i + 1 ELSE Len(MODELS_keys)

\* variant of advance: a failed fetch is tried again
advance_retry(i, ok) == IF ok THEN i + 1 ELSE i

\* line 266: the for loop moves on to the next element, whatever was returned
advance(i, ok) == i + 1

\* variant of should_install: only --model ttsfrd counts, not --all
should_install_single(a, selected) == a.install_ttsfrd /\ a.model = "ttsfrd"

\* line 271
should_install(a, selected) == a.install_ttsfrd /\ "ttsfrd" \in Range(selected)

\* the trees a run may start from
InitialTrees ==
    {s \in SUBSET AllPaths : ConsistentFs(s) /\ Cardinality(s \ {Root}) <= MaxPreExisting}

InitCommon ==
    /\ models_to_download = <<>>
    /\ idx = 0
    /\ model_key = NoModel
    /\ success_count = 0
    /\ outcomes = <<>>
    /\ fetched = <<>>
    /\ attempts = [k \in Keys |-> 0]
    /\ ret = NoRet
    /\ fs \in InitialTrees
    /\ zipContents \in (IF resource_zip \in fs THEN SUBSET Wheels ELSE {{}})
    /\ installs = <<>>
    /\ listing = NoListing
    /\ summary = NoSummary

Init ==
    /\ args \in ArgSpace
    /\ pc = "start"
    /\ caps = NoCaps
    /\ InitCommon

\* line 243: parse_args() leaves through parser.error() on a --model outside choices
ParseArgs ==
    /\ pc = "start"
    /\ pc' = IF valid_choice(args) THEN "parsed" ELSE "usage_error"
    /\ UNCHANGED <<args, models_to_download, idx, model_key, success_count, outcomes,
                   fetched, attempts, ret, fs, zipContents, installs, caps, listing,
                   summary>>

\* lines 246-248
ListModels ==
    /\ pc = "parsed"
    /\ list_requested(args)
    /\ listing' = list_models(fs)
    /\ pc' = "done"
    /\ UNCHANGED <<args, models_to_download, idx, model_key, success_count, outcomes,
                   fetched, attempts, ret, fs, zipContents, installs, caps, summary>>

\* lines 255-259: nothing selected: help, then the listing
ShowHelp ==
    /\ pc = "parsed"
    /\ ~list_requested(args)
    /\ select_models(args) = <<>>
    /\ listing' = list_models(fs)
    /\ pc' = "done"
    /\ UNCHANGED <<args, models_to_download, idx, model_key, success_count, outcomes,
                   fetched, attempts, ret, fs, zipContents, installs, caps, summary>>

\* lines 250-265
SelectModels ==
    /\ pc = "parsed"
    /\ ~list_requested(args)
    /\ select_models(args) # <<>>
    /\ models_to_download' = select_models(args)
    /\ success_count' = 0
    /\ pc' = "loop"
    /\ UNCHANGED <<args, idx, model_key, outcomes, fetched, attempts, ret, fs,
                   zipContents, installs, caps, listing, summary>>

\* lines 266-267: the loop takes the next key and calls download_func
CallDownload ==
    /\ pc = "loop"
    /\ idx < Len(models_to_download)
    /\ model_key' = models_to_download[idx + 1]
    /\ fetched' = Append(fetched, models_to_download[idx + 1])
    /\ pc' = "download"
    /\ UNCHANGED <<args, models_to_download, idx, success_count, outcomes, attempts,
                   ret, fs, zipContents, installs, caps, listing, summary>>

\* the body of download_func for the current key; an exception that leaves it
\* ends main() with a traceback
Transport(env) ==
    LET r == download_func(args.method, model_key, fs, env) IN
    /\ ret' = [ok |-> r.ok, cause |-> r.cause, env |-> env]
    /\ fs' = r.fs
    /\ attempts' = [attempts EXCEPT ![model_key] = @ + (IF r.attempted THEN 1 ELSE 0)]
    /\ zipContents' = IF r.ok /\ env.payload.zip THEN env.payload.contents ELSE zipContents
    /\ pc' = IF r.raised THEN "fault" ELSE "returned"
    /\ UNCHANGED <<args, models_to_download, idx, model_key, success_count, outcomes,
                   fetched, installs, caps, listing, summary>>

\* lines 76-102
DownloadViaSdk ==
    /\ pc = "download"
    /\ args.method = "sdk"
    /\ \E env \in SdkEnvs(model_key, fs) : Transport(env)

\* lines 105-141
DownloadViaGit ==
    /\ pc = "download"
    /\ args.method = "git"
    /\ \E env \in GitEnvs(model_key, fs) : Transport(env)

\* lines 267-268: the returned value is consumed and counted, and the loop goes on
CountOutcome ==
    /\ pc = "returned"
    /\ success_count' = count(success_count, ret.ok)
    /\ outcomes' = Append(outcomes, ret.ok)
    /\ idx' = advance(idx, ret.ok)
    /\ ret' = NoRet
    /\ pc' = "loop"
    /\ UNCHANGED <<args, models_to_download, model_key, fetched, attempts, fs,
                   zipContents, installs, caps, listing, summary>>

\* lines 271-272, the step taken
InstallTtsfrd ==
    /\ pc = "loop"
    /\ idx >= Len(models_to_download)
    /\ should_install(args, models_to_download)
    /\ \E cap \in Caps :
         LET r == install_ttsfrd(fs, zipContents, cap) IN
         /\ installs' = Append(installs, r)
         /\ fs' = r.fs
    /\ pc' = "summary"
    /\ UNCHANGED <<args, models_to_download, idx, model_key, success_count, outcomes,
                   fetched, attempts, ret, zipContents, caps, listing, summary>>

\* line 271, the step not taken
SkipInstall ==
    /\ pc = "loop"
    /\ idx >= Len(models_to_download)
    /\ ~should_install(args, models_to_download)
    /\ pc' = "summary"
    /\ UNCHANGED <<args, models_to_download, idx, model_key, success_count, outcomes,
                   fetched, attempts, ret, fs, zipContents, installs, caps, listing,
                   summary>>

\* lines 274-277
PrintSummary ==
    /\ pc = "summary"
    /\ summary' = [total |-> Len(models_to_download), succeededCount |-> success_count]
    /\ pc' = "done"
    /\ UNCHANGED <<args, models_to_download, idx, model_key, success_count, outcomes,
                   fetched, attempts, ret, fs, zipContents, installs, caps, listing>>

Next ==
    \/ ParseArgs
    \/ ListModels
    \/ ShowHelp
    \/ SelectModels
    \/ CallDownload
    \/ DownloadViaSdk
    \/ DownloadViaGit
    \/ CountOutcome
    \/ InstallTtsfrd
    \/ SkipInstall
    \/ PrintSummary

Spec == Init /\ [][Next]_vars

----------------------------------------------------------------------------
(* install_ttsfrd called again and again, unzip and pip answering the same *)
(* way each time                                                            *)

IdleArgs == [model |-> NoModel, all |-> FALSE, method |-> "sdk",
             install_ttsfrd |-> TRUE, list |-> FALSE]

InitReinstall ==
    /\ args = IdleArgs
    /\ pc = "reinstall"
    /\ caps \in Caps
    /\ InitCommon

Reinstall ==
    /\ pc = "reinstall"
    /\ Len(installs) < MaxInstallCalls
    /\ LET r == install_ttsfrd(fs, zipContents, caps) IN
         /\ installs' = Append(installs, r)
         /\ fs' = r.fs
    /\ UNCHANGED <<args, pc, models_to_download, idx, model_key, success_count, outcomes,
                   fetched, attempts, ret, zipContents, caps, listing, summary>>

NextReinstall == Reinstall

SpecReinstall == InitReinstall /\ [][NextReinstall]_vars

----------------------------------------------------------------------------
(* Properties *)

\* the identifiers the command line asks for
Requested == select_models(args)

NumTrue(q) == Cardinality({i \in 1..Len(q) : q[i]})

\* C1, as stated: every finished run that requested identifiers, a --model
\* value outside the catalog included, has recorded one outcome per requested
\* identifier and printed a summary whose total is their number.
C1_OutcomePerRequestedId ==
    (pc \in {"done", "usage_error"} /\ ~args.list /\ Requested # <<>>) =>
        /\ Len(outcomes) = Len(Requested)
        /\ summary.total = Len(Requested)
        /\ summary.succeededCount = NumTrue(outcomes)

\* C1, amended: only catalog identifiers are ever processed (a --model value
\* outside the catalog ends the program in argument parsing, with no outcome
\* and no summary); after i loop iterations i outcomes are recorded; and the
\* printed summary has total = |S| = number of outcomes and succeededCount =
\* number of fetches that returned success, between 0 and total, whatever
\* install_ttsfrd returned.
C1_SummaryCounts ==
    /\ pc = "usage_error" =>
         args.model \notin Keys /\ outcomes = <<>> /\ summary = NoSummary
    /\ models_to_download # <<>> =>
         models_to_download = Requested /\ Range(models_to_download) \subseteq Keys
    /\ pc = "loop" => Len(outcomes) = idx /\ success_count = NumTrue(outcomes)
    /\ summary # NoSummary =>
         /\ summary.total = Len(Requested)
         /\ Len(outcomes) = summary.total
         /\ summary.succeededCount = NumTrue(outcomes)
         /\ 0 <= summary.succeededCount /\ summary.succeededCount <= summary.total

\* a summary of a five-model run with some but not all fetches failed, printed
\* after install_ttsfrd returned failure
C1_Witness ==
    /\ summary # NoSummary
    /\ summary.total = 5
    /\ summary.succeededCount \in 1..4
    /\ installs # <<>> /\ ~installs[1].ok

\* what a fetch returns, from the answers of its own collaborators alone
ExpectedOk(method, env) ==
    IF method = "git"
    THEN /\ env.lfs = "ok" \/ env.answer \in {"y", "Y"}
         /\ env.mkdir = "ok"
         /\ env.xfer = "ok"
    ELSE env.sdk = "ok" /\ env.mkdir = "ok" /\ env.xfer = "ok"

\* C2: isolation.  A fetch returns what its own collaborators decide, whatever
\* was recorded before it, and leaves the recorded outcomes alone; its outcome
\* is appended and the loop moves to the next position whether it failed or
\* not; and the next identifier, if any, is then fetched.
C2_Isolation ==
    [][ /\ (pc = "download" /\ pc' = "returned") =>
              /\ ret'.ok = ExpectedOk(args.method, ret'.env)
              /\ outcomes' = outcomes
        /\ pc = "returned" =>
              /\ outcomes' = Append(outcomes, ret.ok)
              /\ idx' = idx + 1
              /\ pc' = "loop"
        /\ (pc = "loop" /\ idx < Len(models_to_download)) =>
              /\ pc' = "download"
              /\ model_key' = models_to_download[idx + 1]
      ]_vars

\* a failed fetch followed, in the same batch, by a successful one
C2_Witness ==
    \E i, j \in 1..Len(outcomes) : i < j /\ ~outcomes[i] /\ outcomes[j]

\* C3: no failure of a collaborator leaves the download loop or the
\* post-install step as an unhandled exception.
C3_NoUnhandledFault == pc # "fault"

\* C4: with git, git-lfs absent and an answer other than y/Y, the fetch
\* returns False, no path is created, git clone is not invoked, no exception
\* leaves the function, and the loop then goes on.
C4_DeclineIsQuiet ==
    [][ /\ ( /\ pc = "download"
             /\ args.method = "git"
             /\ ret'.env.lfs \in {"nonzero", "missing"}
             /\ ret'.env.answer \in Answers \ {"y", "Y"} ) =>
              /\ pc' = "returned"
              /\ ret'.ok = FALSE
              /\ fs' = fs
              /\ attempts' = attempts
        /\ ( /\ pc = "returned"
             /\ args.method = "git"
             /\ ret.env.lfs \in {"nonzero", "missing"}
             /\ ret.env.answer \in Answers \ {"y", "Y"} ) =>
              /\ pc' = "loop"
              /\ idx' = idx + 1
              /\ outcomes' = Append(outcomes, FALSE)
      ]_vars

\* the second identifier of a batch being fetched after the first was
\* declined, the destination root still absent
C4_Witness ==
    /\ args.method = "git"
    /\ pc = "download"
    /\ outcomes = <<FALSE>>
    /\ attempts[models_to_download[1]] = 0
    /\ Root \notin fs

\* C5: install_ttsfrd is called at most once, only with --install-ttsfrd and
\* ttsfrd among the requested identifiers, only after every requested
\* identifier has an outcome; and when the summary stage is reached it has
\* been called exactly when both conditions hold, the outcome of the ttsfrd
\* fetch notwithstanding.
C5_PostInstallGate ==
    /\ Len(installs) <= 1
    /\ installs # <<>> =>
         /\ args.install_ttsfrd
         /\ "ttsfrd" \in Range(Requested)
         /\ Len(outcomes) = Len(models_to_download)
         /\ pc \in {"summary", "done"}
    /\ (pc \in {"summary", "done"} /\ models_to_download # <<>>) =>
         (installs # <<>> <=> (args.install_ttsfrd /\ "ttsfrd" \in Range(Requested)))
    /\ summary # NoSummary =>
         (installs # <<>> <=> (args.install_ttsfrd /\ "ttsfrd" \in Range(Requested)))

\* install_ttsfrd called in a --all run although the ttsfrd fetch failed
C5_Witness ==
    /\ installs # <<>>
    /\ args.all
    /\ Len(outcomes) = 5 /\ ~outcomes[5]
    /\ models_to_download[5] = "ttsfrd"

Ops(r) == {r.steps[i].op : i \in 1..Len(r.steps)}

\* C6: in every install_ttsfrd call, a pip run happens only after unzip ended
\* with zero, the main wheel is installed after the dependency wheel and, when
\* the dependency wheel is there, only after its install ended with zero; a
\* step that ends non-zero (or cannot be started) is the last step, and the
\* call returns failure.
C6_InstallOrder ==
    \A n \in 1..Len(installs) :
        LET r == installs[n]
            s == r.steps
        IN  /\ \A i \in 1..Len(s) :
                  s[i].op \in {"pip_dep", "pip_main"} =>
                      \E j \in 1..(i - 1) : s[j] = Step("unzip", "ok")
            /\ \A i \in 1..Len(s) :
                  s[i].op = "pip_main" =>
                      /\ \A j \in 1..Len(s) : s[j].op = "pip_dep" => j < i
                      /\ dependency_whl \in r.fs =>
                            \E j \in 1..(i - 1) : s[j] = Step("pip_dep", "ok")
            /\ \A i \in 1..Len(s) :
                  s[i].rc \in {"nonzero", "missing"} => i = Len(s) /\ ~r.ok
            /\ r.ok => Step("unzip", "ok") \in Range(s)

\* a call that extracted, installed the dependency wheel, then the main wheel
C6_Witness ==
    /\ installs # <<>>
    /\ installs[1].ok
    /\ {"unzip", "pip_dep", "pip_main"} \subseteq Ops(installs[1])

\* C7: with unzip and pip answering the same way each time, a second
\* install_ttsfrd call returns what the first returned and leaves the same
\* files as the first left.
C7_Idempotent ==
    \A n \in 1..(Len(installs) - 1) :
        /\ installs[n + 1].ok = installs[n].ok
        /\ installs[n + 1].detail = installs[n].detail
        /\ installs[n + 1].fs = installs[n].fs

\* two successive calls with the archive present, the first of which
\* extracted wheels that were not there before and installed them
C7_Witness ==
    /\ Len(installs) = 2
    /\ installs[1].ok
    /\ "pip_dep" \in Ops(installs[1])
    /\ zipContents # {}

\* C8: with --list, whatever else is on the command line, the program only
\* prints, for each catalog entry, whether its local_dir exists: no path is
\* created, no fetch is made, install_ttsfrd is not called.
C8_ListOnly ==
    [][ (args.list /\ pc # "start") =>
            /\ pc' = "done"
            /\ listing' = [k \in Keys |->
                              IF MODELS[k].local_dir \in fs THEN "present" ELSE "absent"]
            /\ fs' = fs
            /\ zipContents' = zipContents
            /\ fetched' = <<>> /\ outcomes' = <<>> /\ installs' = <<>>
            /\ attempts' = [k \in Keys |-> 0]
            /\ summary' = NoSummary
      ]_vars

\* --list together with --all and --install-ttsfrd, over a tree that holds
\* the ttsfrd copy and no other
C8_Witness ==
    /\ pc = "done"
    /\ args.list /\ args.all /\ args.install_ttsfrd
    /\ listing["ttsfrd"] = "present"
    /\ listing["sft"] = "absent"
    /\ fetched = <<>> /\ installs = <<>>

\* C9: an install_ttsfrd call that finds no CosyVoice-ttsfrd directory ends
\* as NotDownloaded having probed nothing else; one that finds the directory
\* without resource.zip ends as ArchiveMissing; neither unzips, installs or
\* changes a path.
C9_Preconditions ==
    [][ Len(installs') > Len(installs) =>
            LET r == installs'[Len(installs')] IN
            /\ ttsfrd_dir \notin fs =>
                  /\ ~r.ok /\ r.detail = "NotDownloaded"
                  /\ Ops(r) = {"exists_dir"}
                  /\ fs' = fs
            /\ (ttsfrd_dir \in fs /\ resource_zip \notin fs) =>
                  /\ ~r.ok /\ r.detail = "ArchiveMissing"
                  /\ Ops(r) = {"exists_dir", "exists_zip"}
                  /\ fs' = fs
      ]_vars

\* a call that met the directory without the archive, wheels lying in it
C9_Witness ==
    /\ installs # <<>>
    /\ installs[1].detail = "ArchiveMissing"
    /\ fs \cap Wheels # {}

\* C10: download_func is called on the requested identifiers in their order
\* (catalog order under --all), the next call only once the previous one has
\* returned and been counted, and the transport operation of an identifier is
\* invoked at most once.
C10_OneAtATime ==
    /\ Len(fetched) <= Len(models_to_download)
    /\ fetched = SubSeq(models_to_download, 1, Len(fetched))
    /\ (args.all /\ models_to_download # <<>>) => models_to_download = MODELS_keys
    /\ \A k \in Keys : attempts[k] <= 1 /\ (attempts[k] = 1 => k \in Range(fetched))
    /\ Len(fetched) = Len(outcomes) + (IF pc \in {"download", "returned", "fault"} THEN 1 ELSE 0)

\* a finished --all run in which a transport operation failed and was not
\* tried again
C10_Witness ==
    /\ pc = "done"
    /\ fetched = MODELS_keys
    /\ \E i \in 1..Len(outcomes) : ~outcomes[i] /\ attempts[fetched[i]] = 1

====
